---- MODULE Spec2Model ----
(***************************************************************************)
(* A model of src/regex.py: the pattern compiler of RegexFSM               *)
(* (__init__ and _parse_pattern), the recursive backtracking matcher       *)
(* (check_string and _match, executed one call or return at a time on an   *)
(* explicit call stack) and the two character-class checks                 *)
(* (_match_character_class and CharacterClassState).                       *)
(*                                                                         *)
(* A Python string is a sequence of one-character strings; indices are     *)
(* 0-based as in the source (At, Slice).                                   *)
(***************************************************************************)
EXTENDS Integers, Sequences, FiniteSets, TLC

VARIABLES
    regex,    \* the pattern handed to RegexFSM(...)
    pc,       \* "init" | "parse" | "raised" | "idle" | "match" | "class"
    fsm,      \* attributes of the RegexFSM object: regex, parsed_pattern
    i,        \* loop variable i of _parse_pattern
    error,    \* message of the exception that was raised, or NoError
    string,   \* argument of the running / last check_string call
    stack,    \* call stack of _match: one frame per active call
    ret,      \* value just returned by a _match call, or None
    result,   \* value the last completed check_string call returned, or None
    cc        \* the character-class checks applied to one (content, char)

vars == <<regex, pc, fsm, i, error, string, stack, ret, result, cc>>

\* ------------------------------------------------------------------ bounds
MaxPatLen == 5       \* longest raw pattern handed to the compiler
MaxTokens == 2       \* most atoms (with their operator) in a matched pattern
MaxStrLen == 3       \* longest input string of check_string
MaxClassLen == 3     \* longest class content of the class checks

\* ------------------------------------------------------------------ strings
None == <<>>                 \* Python's None / "nothing returned yet"
Some(v) == <<v>>
NoError == "NoError"

Seqs(S, n) == UNION {[1..k -> S] : k \in 0..n}

At(str, k) == str[k + 1]                      \* str[k]
Slice(str, a, b) == SubSeq(str, a + 1, b)     \* str[a:b]
StartsWith(str, c) == Len(str) > 0 /\ str[1] = c

\* ord() of the characters the model uses
Ord(c) ==
    CASE c = "*" -> 42 [] c = "+" -> 43 [] c = "-" -> 45 [] c = "." -> 46
      [] c = "[" -> 91 [] c = "]" -> 93 [] c = "^" -> 94
      [] c = "a" -> 97 [] c = "b" -> 98 [] c = "c" -> 99

\* ------------------------------------------------------------------ errors
EmptyPattern == "Empty regex pattern"
InvalidRegex == "Invalid regex pattern"
UnmatchedBracket == "Unmatched bracket in regex pattern"
IndexError == "IndexError"
InvalidPattern == {EmptyPattern, InvalidRegex}

\* ------------------------------------------------------------------ compiler
Token(t, v) == [type |-> t, value |-> v]

\* the inner while loop of the class branch: first j >= from with regex[j] = ']'
RECURSIVE ScanClose(_, _)
ScanClose(rx, j) ==
    IF j < Len(rx) /\ At(rx, j) # "]" THEN ScanClose(rx, j + 1) ELSE j

\* outcome of one iteration of the while loop of _parse_pattern
Parsed(k, pp) == [i |-> k, pp |-> pp, err |-> NoError]
ParseRaise(k, pp, e) == [i |-> k, pp |-> pp, err |-> e]

\* which branch of the if / elif chain the iteration at i takes
ParseBranch(rx, k) ==
    IF At(rx, k) = "[" THEN "class"
    ELSE IF k + 1 < Len(rx) /\ At(rx, k + 1) = "*" THEN "star"
    ELSE IF k + 1 < Len(rx) /\ At(rx, k + 1) = "+" THEN "plus"
    ELSE IF At(rx, k) = "*" \/ At(rx, k) = "+" THEN "skip"
    ELSE "char"

ParseClassStepLate(rx, k, pp) ==
    LET j == ScanClose(rx, k + 1)
        class_content == Slice(rx, k + 1, j)
    IN  IF j > Len(rx) THEN ParseRaise(k, pp, UnmatchedBracket)
        ELSE IF j + 1 < Len(rx) /\ At(rx, j + 1) = "*"
             THEN Parsed(j + 2, Append(pp, Token("star_class", class_content)))
        ELSE IF j + 1 < Len(rx) /\ At(rx, j + 1) = "+"
             THEN Parsed(j + 2, Append(pp, Token("plus_class", class_content)))
        ELSE Parsed(j + 1, Append(pp, Token("class", class_content)))

ParseClassStep(rx, k, pp) ==
    LET j == ScanClose(rx, k + 1)
        class_content == Slice(rx, k + 1, j)
    IN  IF j >= Len(rx) THEN ParseRaise(k, pp, UnmatchedBracket)
        ELSE IF j + 1 < Len(rx) /\ At(rx, j + 1) = "*"
             THEN Parsed(j + 2, Append(pp, Token("star_class", class_content)))
        ELSE IF j + 1 < Len(rx) /\ At(rx, j + 1) = "+"
             THEN Parsed(j + 2, Append(pp, Token("plus_class", class_content)))
        ELSE Parsed(j + 1, Append(pp, Token("class", class_content)))

ParseStarStep(rx, k, pp) == Parsed(k + 2, Append(pp, Token("star", <<At(rx, k)>>)))

ParsePlusStep(rx, k, pp) == Parsed(k + 2, Append(pp, Token("plus", <<At(rx, k)>>)))

ParseSkipStep(rx, k, pp) == Parsed(k + 1, pp)

ParseCharStep(rx, k, pp) == Parsed(k + 1, Append(pp, Token("char", <<At(rx, k)>>)))

ParseStep(rx, k, pp) ==
    LET b == ParseBranch(rx, k)
    IN  CASE b = "class" -> ParseClassStep(rx, k, pp)
          [] b = "star" -> ParseStarStep(rx, k, pp)
          [] b = "plus" -> ParsePlusStep(rx, k, pp)
          [] b = "skip" -> ParseSkipStep(rx, k, pp)
          [] b = "char" -> ParseCharStep(rx, k, pp)

\* the whole while loop, from position k
RECURSIVE ParseLoop(_, _, _)
ParseLoop(rx, k, pp) ==
    IF k < Len(rx)
    THEN LET r == ParseStep(rx, k, pp)
         IN  IF r.err # NoError THEN r ELSE ParseLoop(rx, r.i, r.pp)
    ELSE Parsed(k, pp)

\* the checks of __init__ before it calls _parse_pattern
ValidateStarOnly(rx) ==
    IF rx = <<>> THEN EmptyPattern
    ELSE IF StartsWith(rx, "*") THEN InvalidRegex
    ELSE NoError

Validate(rx) ==
    IF rx = <<>> THEN EmptyPattern
    ELSE IF StartsWith(rx, "*") \/ StartsWith(rx, "+") THEN InvalidRegex
    ELSE NoError

NoObject == [regex |-> <<>>, parsed_pattern |-> <<>>]

\* RegexFSM(rx) run to completion: the exception or the constructed object
Construct(rx) ==
    IF Validate(rx) # NoError
    THEN [err |-> Validate(rx), obj |-> NoObject]
    ELSE LET r == ParseLoop(rx, 0, <<>>)
         IN  [err |-> r.err, obj |-> [regex |-> rx, parsed_pattern |-> r.pp]]

\* ---- the constructor, one loop iteration per step
NoClassCheck == [content |-> <<>>, char |-> "a", fn |-> <<None, None>>,
                 obj |-> <<None, None>>, check |-> <<None, None>>]

New ==
    /\ pc = "init"
    /\ LET e == Validate(regex)
       IN  IF e = EmptyPattern
           THEN /\ pc' = "raised" /\ error' = e /\ fsm' = fsm
           ELSE IF e # NoError
           THEN /\ pc' = "raised" /\ error' = e
                /\ fsm' = [fsm EXCEPT !.regex = regex]
           ELSE /\ pc' = "parse" /\ error' = error
                /\ fsm' = [regex |-> regex, parsed_pattern |-> <<>>]
    /\ i' = 0
    /\ UNCHANGED <<regex, string, stack, ret, result, cc>>

ParseIteration(branch) ==
    /\ pc = "parse"
    /\ i < Len(fsm.regex)
    /\ ParseBranch(fsm.regex, i) = branch
    /\ LET r == ParseStep(fsm.regex, i, fsm.parsed_pattern)
       IN  /\ fsm' = [fsm EXCEPT !.parsed_pattern = r.pp]
           /\ i' = r.i
           /\ error' = r.err
           /\ pc' = IF r.err # NoError THEN "raised" ELSE "parse"
    /\ UNCHANGED <<regex, string, stack, ret, result, cc>>

ParseClass == ParseIteration("class")
ParseStar == ParseIteration("star")
ParsePlus == ParseIteration("plus")
ParseSkip == ParseIteration("skip")
ParseChar == ParseIteration("char")

ParseReturn ==
    /\ pc = "parse"
    /\ i >= Len(fsm.regex)
    /\ pc' = "idle"
    /\ UNCHANGED <<regex, fsm, i, error, string, stack, ret, result, cc>>

CompileAlphabet == {"a", "b", "*", "+", "[", "]", "-", "^"}

InitCompile ==
    /\ regex \in Seqs(CompileAlphabet, MaxPatLen)
    /\ pc = "init"
    /\ fsm = NoObject
    /\ i = 0
    /\ error = NoError
    /\ string = <<>>
    /\ stack = <<>>
    /\ ret = None
    /\ result = None
    /\ cc = NoClassCheck

NextCompile ==
    \/ New
    \/ ParseClass
    \/ ParseStar
    \/ ParsePlus
    \/ ParseSkip
    \/ ParseChar
    \/ ParseReturn

SpecCompile == InitCompile /\ [][NextCompile]_vars

\* ------------------------------------------------------------------ class checks
\* the while loop of _match_character_class from position k: in_range
RECURSIVE InRangeFrom(_, _, _)
InRangeFrom(content, k, char) ==
    IF k < Len(content)
    THEN IF k + 2 < Len(content) /\ At(content, k + 1) = "-"
         THEN IF Ord(At(content, k)) <= Ord(char) /\ Ord(char) <= Ord(At(content, k + 2))
              THEN TRUE
              ELSE InRangeFrom(content, k + 3, char)
         ELSE IF char = At(content, k)
              THEN TRUE
              ELSE InRangeFrom(content, k + 1, char)
    ELSE FALSE

MatchCharacterClassPlain(class_pattern, char) ==
    LET negated == StartsWith(class_pattern, "^")
        content == IF negated THEN Tail(class_pattern) ELSE class_pattern
    IN  InRangeFrom(content, 0, char)

MatchCharacterClass(class_pattern, char) ==
    LET negated == StartsWith(class_pattern, "^")
        content == IF negated THEN Tail(class_pattern) ELSE class_pattern
        in_range == InRangeFrom(content, 0, char)
    IN  IF negated THEN ~in_range ELSE in_range

\* the while loop of CharacterClassState.__init__ from position k: self.ranges
RECURSIVE RangesFrom(_, _)
RangesFrom(content, k) ==
    IF k < Len(content)
    THEN IF k + 2 < Len(content) /\ At(content, k + 1) = "-"
         THEN <<<<At(content, k), At(content, k + 2)>>>> \o RangesFrom(content, k + 3)
         ELSE <<<<At(content, k), At(content, k)>>>> \o RangesFrom(content, k + 1)
    ELSE <<>>

CharacterClassState(pattern) ==
    LET negated == StartsWith(pattern, "^")
        content == IF negated THEN Tail(pattern) ELSE pattern
    IN  [pattern |-> pattern, negated |-> negated, ranges |-> RangesFrom(content, 0)]

CheckSelf(state, char) ==
    LET in_range == \E r \in 1..Len(state.ranges) :
                        /\ Ord(state.ranges[r][1]) <= Ord(char)
                        /\ Ord(char) <= Ord(state.ranges[r][2])
    IN  IF state.negated THEN ~in_range ELSE in_range

\* the class written with content cc.content (n = 1) and its negation (n = 2)
ClassPattern(n) == IF n = 2 THEN <<"^">> \o cc.content ELSE cc.content

CallMatchCharacterClass ==
    /\ pc = "class"
    /\ \E n \in 1..2 :
        /\ cc.fn[n] = None
        /\ cc' = [cc EXCEPT !.fn[n] = Some(MatchCharacterClass(ClassPattern(n), cc.char))]
    /\ UNCHANGED <<regex, pc, fsm, i, error, string, stack, ret, result>>

NewCharacterClassState ==
    /\ pc = "class"
    /\ \E n \in 1..2 :
        /\ cc.obj[n] = None
        /\ cc' = [cc EXCEPT !.obj[n] = Some(CharacterClassState(ClassPattern(n)))]
    /\ UNCHANGED <<regex, pc, fsm, i, error, string, stack, ret, result>>

CallCheckSelf ==
    /\ pc = "class"
    /\ \E n \in 1..2 :
        /\ cc.obj[n] # None
        /\ cc.check[n] = None
        /\ cc' = [cc EXCEPT !.check[n] = Some(CheckSelf(cc.obj[n][1], cc.char))]
    /\ UNCHANGED <<regex, pc, fsm, i, error, string, stack, ret, result>>

ClassAlphabet == {"a", "b", "c", "-", "^"}

InitClass ==
    /\ regex = <<>>
    /\ pc = "class"
    /\ fsm = NoObject
    /\ i = 0
    /\ error = NoError
    /\ string = <<>>
    /\ stack = <<>>
    /\ ret = None
    /\ result = None
    /\ \E content \in Seqs(ClassAlphabet, MaxClassLen), char \in ClassAlphabet :
          cc = [NoClassCheck EXCEPT !.content = content, !.char = char]

NextClass ==
    \/ CallMatchCharacterClass
    \/ NewCharacterClassState
    \/ CallCheckSelf

SpecClass == InitClass /\ [][NextClass]_vars

\* ------------------------------------------------------------------ matcher
\* One frame per active call _match(p, s, string).  at is the place the call
\* has reached: "enter" (not started), "tail" (in the recursive call whose
\* value a char / class token returns), "zero" (in the zero-occurrence call of
\* a star), "loop" (in a call made by the while loop of a star), "ploop" (in a
\* call made by the while loop of a plus).  i is the loop variable of the
\* repetition loops.  tried is the history of the call: the number of
\* characters given to the token in each recursive call made so far.
Frame(p, s) == [p |-> p, s |-> s, i |-> s, at |-> "enter", tried |-> <<>>]

Top == stack[Len(stack)]
Callers == SubSeq(stack, 1, Len(stack) - 1)
TokenOf(f) == fsm.parsed_pattern[f.p + 1]

\* what a step of a call does next
Return(v) == [kind |-> "return", val |-> v]
Call(at, k, p, s) == [kind |-> "call", at |-> at, i |-> k, p |-> p, s |-> s]
Raise(e) == [kind |-> "raise", err |-> e]

\* string[k] raises IndexError when k is past the end
Subscript(k, then) == IF k < Len(string) THEN then ELSE Raise(IndexError)

\* the test the repetition branches apply to one character
AtomMatches(tok, char) ==
    IF tok.type \in {"star", "plus"}
    THEN IF tok.value = <<".">> THEN TRUE ELSE <<char>> = tok.value
    ELSE MatchCharacterClass(tok.value, char)

\* token_type == 'char'
CharStep(tok, f) ==
    IF tok.value = <<".">>
    THEN IF f.s < Len(string)
         THEN Call("tail", f.i, f.p + 1, f.s + 1)
         ELSE Return(FALSE)
    ELSE IF f.s < Len(string)
         THEN Subscript(f.s, IF <<At(string, f.s)>> = tok.value
                             THEN Call("tail", f.i, f.p + 1, f.s + 1)
                             ELSE Return(FALSE))
         ELSE Return(FALSE)

\* token_type == 'class'
ClassStep(tok, f) ==
    IF f.s < Len(string)
    THEN Subscript(f.s, IF MatchCharacterClass(tok.value, At(string, f.s))
                        THEN Call("tail", f.i, f.p + 1, f.s + 1)
                        ELSE Return(FALSE))
    ELSE Return(FALSE)

\* token_type == 'star' / 'star_class': the zero-occurrence call
StarStep(tok, f) == Call("zero", f.i, f.p + 1, f.s)

\* one test of `while i < len(string)` with i = k, up to the recursive call
StarLoop(tok, f, k) ==
    IF k < Len(string)
    THEN Subscript(k, IF ~AtomMatches(tok, At(string, k))
                      THEN Return(FALSE)
                      ELSE Call("loop", k, f.p + 1, k + 1))
    ELSE Return(FALSE)

\* the longest run of characters from s that pass the test of the token
RunLength(tok, s) ==
    CHOOSE n \in 0..(Len(string) - s) :
        /\ \A k \in s..(s + n - 1) : AtomMatches(tok, At(string, k))
        /\ n < Len(string) - s => ~AtomMatches(tok, At(string, s + n))

StarResumeLongestFirst(tok, f, v) ==
    IF v THEN Return(TRUE)
    ELSE IF f.at = "zero"
         THEN IF RunLength(tok, f.s) = 0 THEN Return(FALSE)
              ELSE Call("loop", f.s + RunLength(tok, f.s) - 1, f.p + 1,
                        f.s + RunLength(tok, f.s))
    ELSE IF f.i - 1 >= f.s THEN Call("loop", f.i - 1, f.p + 1, f.i)
    ELSE Return(FALSE)

\* a star after one of its recursive calls returned v
StarResume(tok, f, v) ==
    IF v THEN Return(TRUE)
    ELSE IF f.at = "zero" THEN StarLoop(tok, f, f.s)
    ELSE StarLoop(tok, f, f.i + 1)

\* one test of `while i <= len(string)` with i = k, up to the recursive call
PlusLoop(tok, f, k) ==
    IF k <= Len(string) THEN Call("ploop", k, f.p + 1, k) ELSE Return(FALSE)

\* token_type == 'plus' / 'plus_class': the first occurrence
PlusStep(tok, f) ==
    IF f.s >= Len(string) THEN Return(FALSE)
    ELSE Subscript(f.s, IF ~AtomMatches(tok, At(string, f.s))
                        THEN Return(FALSE)
                        ELSE PlusLoop(tok, f, f.s + 1))

PlusResumeNoEndTest(tok, f, v) ==
    IF v THEN Return(TRUE)
    ELSE Subscript(f.i, IF ~AtomMatches(tok, At(string, f.i))
                        THEN Return(FALSE)
                        ELSE PlusLoop(tok, f, f.i + 1))

\* a plus after one of its recursive calls returned v
PlusResume(tok, f, v) ==
    IF v THEN Return(TRUE)
    ELSE IF f.i >= Len(string) THEN Return(FALSE)
    ELSE Subscript(f.i, IF ~AtomMatches(tok, At(string, f.i))
                        THEN Return(FALSE)
                        ELSE PlusLoop(tok, f, f.i + 1))

\* the effect of a step of the top call on the stack
Do(o) ==
    /\ fsm' = fsm
    /\ IF o.kind = "return"
       THEN /\ stack' = Callers
            /\ ret' = Some(o.val)
            /\ UNCHANGED <<pc, error>>
       ELSE IF o.kind = "call"
       THEN /\ stack' = Callers \o
                        <<[Top EXCEPT !.at = o.at, !.i = o.i,
                                      !.tried = Append(@, o.s - Top.s)],
                          Frame(o.p, o.s)>>
            /\ ret' = None
            /\ UNCHANGED <<pc, error>>
       ELSE /\ pc' = "raised"
            /\ error' = o.err
            /\ UNCHANGED <<stack, ret>>
    /\ UNCHANGED <<regex, i, string, result, cc>>

Entering == pc = "match" /\ stack # <<>> /\ ret = None /\ Top.at = "enter"
Resuming == pc = "match" /\ stack # <<>> /\ ret # None

CheckStringStoring ==
    /\ pc = "idle"
    /\ \E s \in Seqs({"a", "b"}, MaxStrLen) :
        /\ string' = s
        /\ fsm' = [fsm EXCEPT !.regex = s]
    /\ stack' = <<Frame(0, 0)>>
    /\ ret' = None
    /\ pc' = "match"
    /\ UNCHANGED <<regex, i, error, result, cc>>

CheckString ==
    /\ pc = "idle"
    /\ \E s \in Seqs({"a", "b"}, MaxStrLen) : string' = s
    /\ stack' = <<Frame(0, 0)>>
    /\ ret' = None
    /\ pc' = "match"
    /\ UNCHANGED <<regex, fsm, i, error, result, cc>>

MatchEndPrefix ==
    /\ Entering
    /\ Top.p >= Len(fsm.parsed_pattern)
    /\ Do(Return(TRUE))

\* the base case: the end of the pattern
MatchEnd ==
    /\ Entering
    /\ Top.p >= Len(fsm.parsed_pattern)
    /\ Do(Return(Top.s >= Len(string)))

EnterToken(type, o) ==
    /\ Entering
    /\ Top.p < Len(fsm.parsed_pattern)
    /\ TokenOf(Top).type = type
    /\ Do(o)

MatchChar == EnterToken("char", CharStep(TokenOf(Top), Top))
MatchClass == EnterToken("class", ClassStep(TokenOf(Top), Top))
MatchStar == EnterToken("star", StarStep(TokenOf(Top), Top))
MatchPlus == EnterToken("plus", PlusStep(TokenOf(Top), Top))
MatchStarClass == EnterToken("star_class", StarStep(TokenOf(Top), Top))
MatchPlusClass == EnterToken("plus_class", PlusStep(TokenOf(Top), Top))

ResumeToken(types, o) ==
    /\ Resuming
    /\ TokenOf(Top).type \in types
    /\ Do(o)

\* `return self._match(...)` of a char / class token
ReturnTail == ResumeToken({"char", "class"}, Return(ret[1]))
ResumeStar == ResumeToken({"star"}, StarResume(TokenOf(Top), Top, ret[1]))
ResumePlus == ResumeToken({"plus"}, PlusResume(TokenOf(Top), Top, ret[1]))
ResumeStarClass == ResumeToken({"star_class"}, StarResume(TokenOf(Top), Top, ret[1]))
ResumePlusClass == ResumeToken({"plus_class"}, PlusResume(TokenOf(Top), Top, ret[1]))

\* check_string returns what _match(0, 0, string) returned
CheckStringReturn ==
    /\ pc = "match"
    /\ stack = <<>>
    /\ ret # None
    /\ result' = ret
    /\ ret' = None
    /\ pc' = "idle"
    /\ UNCHANGED <<regex, fsm, i, error, string, stack, cc>>

\* the patterns that are matched: up to MaxTokens atoms, each bare or repeated
Atoms == {<<"a">>, <<".">>, <<"[", "^", "a", "]">>}
Pieces == Atoms \cup {a \o <<op>> : a \in Atoms, op \in {"*", "+"}}

RECURSIVE Flatten(_)
Flatten(ps) == IF ps = <<>> THEN <<>> ELSE Head(ps) \o Flatten(Tail(ps))

MatchPatterns == {Flatten(ps) : ps \in Seqs(Pieces, MaxTokens) \ {<<>>}}

InitMatch ==
    /\ regex \in MatchPatterns
    /\ Construct(regex).err = NoError
    /\ fsm = Construct(regex).obj
    /\ pc = "idle"
    /\ i = Len(regex)
    /\ error = NoError
    /\ string = <<>>
    /\ stack = <<>>
    /\ ret = None
    /\ result = None
    /\ cc = NoClassCheck

MatchRun ==
    \/ MatchEnd
    \/ MatchChar
    \/ MatchClass
    \/ MatchStar
    \/ MatchPlus
    \/ MatchStarClass
    \/ MatchPlusClass
    \/ ReturnTail
    \/ ResumeStar
    \/ ResumePlus
    \/ ResumeStarClass
    \/ ResumePlusClass
    \/ CheckStringReturn

NextMatch == CheckString \/ MatchRun

\* a call of check_string, once made, runs on: Python does not suspend it
SpecMatch == InitMatch /\ [][NextMatch]_vars /\ WF_vars(MatchRun)

\* ================================================================== claims
\* ---- the compiler (SpecCompile)
Tokens == fsm.parsed_pattern
Compiled == pc = "idle"
ClassTypes == {"class", "star_class", "plus_class"}
ClassTokens == {k \in 1..Len(Tokens) : Tokens[k].type \in ClassTypes}
ClassRanges(tok) == CharacterClassState(tok.value).ranges

\* C3: compiling the empty pattern, or a pattern whose first character is `*`
\* or `+`, raises the InvalidPattern error: the constructor never gets to the
\* parser, emits no token and never returns an object.
C3_InvalidPatternRejected ==
    (regex = <<>> \/ StartsWith(regex, "*") \/ StartsWith(regex, "+")) =>
        /\ pc \in {"init", "raised"}
        /\ pc = "raised" => error \in InvalidPattern
        /\ Tokens = <<>>

C3_Witness ==
    /\ pc = "raised"
    /\ error = InvalidRegex
    /\ StartsWith(regex, "+")
    /\ Len(regex) >= 3

\* C4: whenever the scan stands on a `[` with no `]` at any later position,
\* the step it takes raises the UnmatchedBracket error, whatever was emitted
\* before, and after a raise nothing more happens: no object is returned.
C4_UnmatchedBracketRaises ==
    [][ /\ (/\ pc = "parse"
            /\ i < Len(fsm.regex)
            /\ At(fsm.regex, i) = "["
            /\ \A k \in (i + 1)..(Len(fsm.regex) - 1) : At(fsm.regex, k) # "]")
           => (pc' = "raised" /\ error' = UnmatchedBracket)
        /\ pc = "raised" => pc' = "raised" ]_vars

C4_Witness ==
    /\ pc = "raised"
    /\ error = UnmatchedBracket
    /\ Len(Tokens) >= 2

\* C5: a pattern that holds a class with a range x-y whose low character has
\* the greater code point is never accepted: no compiled token sequence holds
\* such a class.
C5_ReversedRangeRejected ==
    Compiled =>
        \A k \in ClassTokens :
            \A r \in 1..Len(ClassRanges(Tokens[k])) :
                Ord(ClassRanges(Tokens[k])[r][1]) <= Ord(ClassRanges(Tokens[k])[r][2])

\* C8: in every token sequence of a successful compile, every class token
\* (bare or repeated) has at least one range.
C8_ClassRangesNonEmpty ==
    Compiled => \A k \in ClassTokens : ClassRanges(Tokens[k]) # <<>>

\* C10: no emitted token has `*` or `+` as its atom, and an atom followed by
\* a stack of `*` compiles to the token sequence of the atom followed by one.
StackedStars ==
    /\ Len(regex) >= 2
    /\ regex[1] \in {"a", "b"}
    /\ \A k \in 2..Len(regex) : regex[k] = "*"

C10_OperatorNeverAtom ==
    Compiled =>
        /\ \A k \in 1..Len(Tokens) :
               Tokens[k].type \notin ClassTypes =>
                   Tokens[k].value \notin {<<"*">>, <<"+">>}
        /\ StackedStars => Tokens = <<Token("star", <<regex[1]>>)>>

\* ---- the class checks (SpecClass)
\* C6: for a class content that does not start with `^`, the check of the
\* content and the check of `^` + content return opposite booleans on every
\* character, in _match_character_class and in CharacterClassState.check_self.
C6_NegationDuality ==
    ~StartsWith(cc.content, "^") =>
        /\ (cc.fn[1] # None /\ cc.fn[2] # None) => cc.fn[1][1] = ~cc.fn[2][1]
        /\ (cc.check[1] # None /\ cc.check[2] # None) =>
               cc.check[1][1] = ~cc.check[2][1]

C6_Witness ==
    /\ cc.content = <<"a", "-", "c">>
    /\ cc.char = "b"
    /\ cc.fn = <<Some(TRUE), Some(FALSE)>>
    /\ cc.check = <<Some(TRUE), Some(FALSE)>>

\* ---- the matcher (SpecMatch)
\* what one character must do to satisfy the atom of a token
Satisfies(tok, char) ==
    IF tok.type \in ClassTypes
    THEN MatchCharacterClass(tok.value, char)
    ELSE tok.value = <<".">> \/ tok.value = <<char>>

\* string[b:e] is a segment the token can take
Segment(tok, b, e) ==
    /\ b <= e
    /\ tok.type \in {"char", "class"} => e - b = 1
    /\ tok.type \in {"plus", "plus_class"} => e - b >= 1
    /\ \A k \in b..(e - 1) : Satisfies(tok, At(string, k))

\* the positions where a split of a prefix of string into segments for the
\* first n tokens, in order, can end
RECURSIVE SplitEnds(_, _)
SplitEnds(tokens, n) ==
    IF n = 0 THEN {0}
    ELSE {e \in 0..Len(string) :
            \E b \in SplitEnds(tokens, n - 1) : Segment(tokens[n], b, e)}

\* string splits into consecutive segments, one per token, covering it all
Accepts(tokens) == Len(string) \in SplitEnds(tokens, Len(tokens))

Returned == pc = "idle" /\ result # None

\* C1: check_string(s) returns true if and only if s splits into consecutive
\* segments, one per token in order, covering s from start to end.
C1_FullConsumption == Returned => (result[1] <=> Accepts(Tokens))

C1_Witness ==
    /\ Returned
    /\ result[1]
    /\ Len(Tokens) = 2
    /\ Tokens[1].type = "star"
    /\ Tokens[2].type = "plus_class"
    /\ Len(string) = 2

\* C2: every call of check_string ends and returns a boolean; no subscript is
\* out of range on the way and the recursion is never deeper than one call
\* per token plus the base case.
C2_Total ==
    /\ [](error # IndexError /\ pc # "raised")
    /\ [](Len(stack) <= Len(Tokens) + 1)
    /\ (pc = "match") ~> (Returned /\ result[1] \in BOOLEAN)

C2_Witness ==
    /\ Returned
    /\ string = <<>>
    /\ \E k \in 1..Len(Tokens) : Tokens[k].type = "plus"

\* C7: no step of check_string changes the token sequence or the stored
\* pattern, and every call, the first or a later one, returns what the
\* freshly compiled pattern gives for its string.
C7_MatchingMutatesNothing ==
    /\ [][(pc \in {"idle", "match"}) => (fsm' = fsm /\ regex' = regex)]_vars
    /\ [](fsm = Construct(regex).obj)
    /\ [](Returned => (result[1] <=> Accepts(Construct(regex).obj.parsed_pattern)))

\* a later call is running, after an earlier one returned
C7_Witness ==
    /\ pc = "match"
    /\ result # None
    /\ Len(stack) >= 2

\* the calls in progress on a ZeroOrMore token that have made a recursive call
StarFrames ==
    {k \in 1..Len(stack) :
        /\ stack[k].p < Len(Tokens)
        /\ TokenOf(stack[k]).type \in {"star", "star_class"}
        /\ stack[k].at # "enter"}

C9_CountsSoFar ==
    pc = "match" =>
        \A k \in StarFrames :
            LET f == stack[k]
            IN  /\ f.tried # <<>>
                /\ \A j \in 1..Len(f.tried) : f.tried[j] = j - 1
                /\ Len(f.tried) - 1 <= RunLength(TokenOf(f), f.s)

\* the step a ZeroOrMore call takes: the next count, or its return
C9_NextStep ==
    (/\ pc = "match"
     /\ stack # <<>>
     /\ Top.p < Len(Tokens)
     /\ TokenOf(Top).type \in {"star", "star_class"}) =>
        LET f == Top
            n == Len(f.tried)
            calls == /\ Len(stack') = Len(stack) + 1
                     /\ stack'[Len(stack)].tried = Append(f.tried, n)
                     /\ stack'[Len(stack')] = Frame(f.p + 1, f.s + n)
        IN  IF ret = None THEN n = 0 /\ calls
            ELSE IF ret[1] THEN stack' = Callers /\ ret' = Some(TRUE)
            ELSE IF n <= RunLength(TokenOf(f), f.s) THEN calls
            ELSE stack' = Callers /\ ret' = Some(FALSE)

====
